---- MODULE Spec2Model ----
(***************************************************************************)
(* Model of the wire dispatcher of omnihandler.go (LNDCReceiver loops      *)
(* feeding OmniChan, OmniHandler draining it) and of the RevokeAndAck     *)
(* message codec of package lnwire.                                        *)
(***************************************************************************)
EXTENDS Integers, Sequences, FiniteSets, TLC

(***************************************************************************)
(* Bounds of the model.                                                    *)
(***************************************************************************)
\* longest result of one l.Read, in bytes (the code allows up to 65535)
MaxRead == 2
\* capacity of OmniChan (chosen by the caller that makes the channel)
ChanCap == 1

\* the connections, each served by one LNDCReceiver goroutine
Conns == {1, 2}

(***************************************************************************)
(* Program constants.                                                      *)
(***************************************************************************)
\* var from [16]byte / id [16]byte
IdLen == 16
\* len(newdata) < 17
MinFrameLen == 17

\* Message ids of package uwire.  OmniHandler only compares them, so only
\* their being distinct bytes matters here.
MSGID_TEXTCHAT == 0
MSGID_PUBREQ == 48
MSGID_PUBRESP == 49
MSGID_MULTIDESC == 58
MSGID_MULTIACK == 59
MSGID_CLOSEREQ == 64
MSGID_CLOSERESP == 65

\* the ids for which OmniHandler calls a handler
HandlerIds ==
  {MSGID_PUBREQ, MSGID_PUBRESP, MSGID_MULTIDESC, MSGID_MULTIACK,
   MSGID_CLOSEREQ, MSGID_CLOSERESP}

\* a byte that is no message id OmniHandler knows
UnknownId == 255

\* the type bytes the connections deliver
TypeBytes == HandlerIds \cup {MSGID_TEXTCHAT, UnknownId}

\* the bytes the connections deliver after the type byte
PayloadBytes == {7}

\* sequences over S of length n
SeqsOfLen(S, n) == [1..n -> S]

\* what one l.Read can return: nothing, or a type byte and a payload
ReadData ==
  {<<>>} \cup
  UNION {{<<t>> \o p : t \in TypeBytes, p \in SeqsOfLen(PayloadBytes, n)} :
           n \in 0..(MaxRead - 1)}

\* the 16-byte identifier of connection c
Id(c) == [i \in 1..IdLen |-> (c * IdLen + i) % 256]

\* s[lo:] of Go, lo counted from 0
SliceFrom(s, lo) == SubSeq(s, lo + 1, Len(s))

\* s[:hi] of Go
SliceTo(s, hi) == SubSeq(s, 1, hi)

VARIABLES
  rpc,       \* rpc[c]: where the LNDCReceiver of connection c stands
  rmsg,      \* rmsg[c]: the frame it is about to send on OmniChan
  connOpen,  \* connOpen[c]: l of connection c has not been closed
  OmniChan,  \* the frames buffered in the channel, oldest first
  hpc,       \* where OmniHandler stands: "recv", "handler" or "panic"
  newdata,   \* the frame OmniHandler took last
  from,      \* its variable from
  calls,     \* the handler calls made for newdata
  active,    \* number of handler invocations in progress
  cpc,       \* codec: "idle", "new", "encoded", "raw", "roundtrip", "decoded"
  pver,      \* codec: the protocol version passed to the methods
  cmsg,      \* codec: the RevokeAndAck that is encoded
  wire,      \* codec: the bytes written, then read
  dec,       \* codec: the receiver of the method and the error it returned
  ord,       \* order: what each receiver read and what OmniHandler took
  cmd,       \* commands: the connection, the store and the last result
  sm         \* channel state machine: the two parties and their messages

vars ==
  <<rpc, rmsg, connOpen, OmniChan, hpc, newdata, from, calls, active,
    cpc, pver, cmsg, wire, dec, ord, cmd, sm>>

rvars == <<rpc, rmsg, connOpen>>
hvars == <<hpc, newdata, from, calls, active>>
cvars == <<cpc, pver, cmsg, wire, dec>>
dvars == <<rvars, OmniChan, hvars>>
xvars == <<cmd, sm>>

\* nothing read and nothing taken yet
NoOrder == [rd |-> [c \in Conns |-> <<>>], dq |-> <<>>, hc |-> <<>>]

\* the dispatcher before any goroutine has taken a step; no message is
\* being encoded or decoded
Init ==
  /\ rpc = [c \in Conns |-> "start"]
  /\ rmsg = [c \in Conns |-> <<>>]
  /\ connOpen = [c \in Conns |-> TRUE]
  /\ OmniChan = <<>>
  /\ hpc = "recv"
  /\ newdata = <<>>
  /\ from = [i \in 1..IdLen |-> 0]
  /\ calls = <<>>
  /\ active = 0
  /\ cpc = "idle"
  /\ pver = 0
  /\ cmsg = <<>>
  /\ wire = <<>>
  /\ dec = <<>>
  /\ ord = NoOrder
  /\ cmd = <<>>
  /\ sm = <<>>

\* a runtime panic in any goroutine ends the whole process
Running == hpc # "panic"

(***************************************************************************)
(* LNDCReceiver                                                            *)
(***************************************************************************)
\* the id appended to the bytes read instead of the bytes to the id
FrameDataFirst(id, data) == data \o id

\* msg = msg[:n]; msg = append(id[:], msg...)
Frame(id, data) == id \o data

\* SCon.TS.NewPeer succeeds: enter the read loop
NewPeerOk(c) ==
  /\ Running
  /\ rpc[c] = "start"
  /\ rpc' = [rpc EXCEPT ![c] = "read"]
  /\ UNCHANGED <<rmsg, connOpen, OmniChan, hvars, cvars, ord, xvars>>

\* SCon.TS.NewPeer fails: return err, nothing read, l left as it is
NewPeerErr(c) ==
  /\ Running
  /\ rpc[c] = "start"
  /\ rpc' = [rpc EXCEPT ![c] = "done"]
  /\ UNCHANGED <<rmsg, connOpen, OmniChan, hvars, cvars, ord, xvars>>

\* l.Read returns the n bytes data
Read(c, data) ==
  /\ Running
  /\ rpc[c] = "read"
  /\ rmsg' = [rmsg EXCEPT ![c] = Frame(Id(c), data)]
  /\ rpc' = [rpc EXCEPT ![c] = "send"]
  /\ UNCHANGED <<connOpen, OmniChan, hvars, cvars, xvars>>

\* l.Read returns n bytes, drawn from D
ReadFrom(c, D) == \E data \in D : Read(c, data)

ReadOk(c) == ReadFrom(c, ReadData) /\ UNCHANGED ord

\* a read error that returns without closing the connection
ReadErrNoClose(c) ==
  /\ Running
  /\ rpc[c] = "read"
  /\ rpc' = [rpc EXCEPT ![c] = "done"]
  /\ UNCHANGED <<connOpen, rmsg, OmniChan, hvars, cvars, ord, xvars>>

\* l.Read fails: return l.Close()
ReadErr(c) ==
  /\ Running
  /\ rpc[c] = "read"
  /\ connOpen' = [connOpen EXCEPT ![c] = FALSE]
  /\ rpc' = [rpc EXCEPT ![c] = "done"]
  /\ UNCHANGED <<rmsg, OmniChan, hvars, cvars, ord, xvars>>

\* a send that gives up when the channel is full, as in a select with a
\* default case
SendLossy(c) ==
  /\ Running
  /\ rpc[c] = "send"
  /\ OmniChan' = IF Len(OmniChan) < ChanCap THEN Append(OmniChan, rmsg[c])
                 ELSE OmniChan
  /\ rmsg' = [rmsg EXCEPT ![c] = <<>>]
  /\ rpc' = [rpc EXCEPT ![c] = "read"]
  /\ UNCHANGED <<connOpen, hvars, cvars, ord, xvars>>

\* OmniChan <- msg, which blocks while the channel is full
Send(c) ==
  /\ Running
  /\ rpc[c] = "send"
  /\ Len(OmniChan) < ChanCap
  /\ OmniChan' = Append(OmniChan, rmsg[c])
  /\ rmsg' = [rmsg EXCEPT ![c] = <<>>]
  /\ rpc' = [rpc EXCEPT ![c] = "read"]
  /\ UNCHANGED <<connOpen, hvars, cvars, ord, xvars>>

LNDCReceiver(c) ==
  \/ NewPeerOk(c)
  \/ NewPeerErr(c)
  \/ ReadOk(c)
  \/ ReadErr(c)
  \/ Send(c)

(***************************************************************************)
(* OmniHandler                                                             *)
(***************************************************************************)
\* a call handler(from) or handler(from, payload)
Call(h, args) == [handler |-> h, args |-> args]

\* Dispatch that hands the close response handler msg instead of msg[1:]
DispatchWholeMsg(frm, msg) ==
  LET msgid == msg[1]
  IN  IF msgid = MSGID_TEXTCHAT THEN <<>>
      ELSE IF msgid = MSGID_PUBREQ
        THEN <<Call("PubReqHandler", <<frm>>)>>
      ELSE IF msgid = MSGID_PUBRESP
        THEN <<Call("PubRespHandler", <<frm, SliceFrom(msg, 1)>>)>>
      ELSE IF msgid = MSGID_MULTIDESC
        THEN <<Call("QChanDescHandler", <<frm, SliceFrom(msg, 1)>>)>>
      ELSE IF msgid = MSGID_MULTIACK
        THEN <<Call("QChanAckHandler", <<frm, SliceFrom(msg, 1)>>)>>
      ELSE IF msgid = MSGID_CLOSEREQ
        THEN <<Call("CloseReqHandler", <<frm, SliceFrom(msg, 1)>>)>>
      ELSE IF msgid = MSGID_CLOSERESP
        THEN <<Call("CloseRespHandler", <<frm, msg>>)>>
      ELSE <<>>

\* Dispatch whose if chain ends in the close request handler instead of
\* falling through to the "Unknown message id" line
DispatchNoFallThrough(frm, msg) ==
  LET msgid == msg[1]
  IN  IF msgid = MSGID_TEXTCHAT THEN <<>>
      ELSE IF msgid = MSGID_PUBREQ
        THEN <<Call("PubReqHandler", <<frm>>)>>
      ELSE IF msgid = MSGID_PUBRESP
        THEN <<Call("PubRespHandler", <<frm, SliceFrom(msg, 1)>>)>>
      ELSE IF msgid = MSGID_MULTIDESC
        THEN <<Call("QChanDescHandler", <<frm, SliceFrom(msg, 1)>>)>>
      ELSE IF msgid = MSGID_MULTIACK
        THEN <<Call("QChanAckHandler", <<frm, SliceFrom(msg, 1)>>)>>
      ELSE IF msgid = MSGID_CLOSERESP
        THEN <<Call("CloseRespHandler", <<frm, SliceFrom(msg, 1)>>)>>
      ELSE <<Call("CloseReqHandler", <<frm, SliceFrom(msg, 1)>>)>>

\* Dispatch that drops a frame whose payload is empty
DispatchNonEmpty(frm, msg) ==
  LET msgid == msg[1]
  IN  IF Len(msg) < 2 THEN <<>>
      ELSE IF msgid = MSGID_TEXTCHAT THEN <<>>
      ELSE IF msgid = MSGID_PUBREQ
        THEN <<Call("PubReqHandler", <<frm>>)>>
      ELSE IF msgid = MSGID_PUBRESP
        THEN <<Call("PubRespHandler", <<frm, SliceFrom(msg, 1)>>)>>
      ELSE IF msgid = MSGID_MULTIDESC
        THEN <<Call("QChanDescHandler", <<frm, SliceFrom(msg, 1)>>)>>
      ELSE IF msgid = MSGID_MULTIACK
        THEN <<Call("QChanAckHandler", <<frm, SliceFrom(msg, 1)>>)>>
      ELSE IF msgid = MSGID_CLOSEREQ
        THEN <<Call("CloseReqHandler", <<frm, SliceFrom(msg, 1)>>)>>
      ELSE IF msgid = MSGID_CLOSERESP
        THEN <<Call("CloseRespHandler", <<frm, SliceFrom(msg, 1)>>)>>
      ELSE <<>>

\* the if chain on msgid: the handler calls made for msg, sent by frm
Dispatch(frm, msg) ==
  LET msgid == msg[1]
  IN  IF msgid = MSGID_TEXTCHAT THEN <<>>
      ELSE IF msgid = MSGID_PUBREQ
        THEN <<Call("PubReqHandler", <<frm>>)>>
      ELSE IF msgid = MSGID_PUBRESP
        THEN <<Call("PubRespHandler", <<frm, SliceFrom(msg, 1)>>)>>
      ELSE IF msgid = MSGID_MULTIDESC
        THEN <<Call("QChanDescHandler", <<frm, SliceFrom(msg, 1)>>)>>
      ELSE IF msgid = MSGID_MULTIACK
        THEN <<Call("QChanAckHandler", <<frm, SliceFrom(msg, 1)>>)>>
      ELSE IF msgid = MSGID_CLOSEREQ
        THEN <<Call("CloseReqHandler", <<frm, SliceFrom(msg, 1)>>)>>
      ELSE IF msgid = MSGID_CLOSERESP
        THEN <<Call("CloseRespHandler", <<frm, SliceFrom(msg, 1)>>)>>
      ELSE <<>>

\* the length test with 16 for 17
TooShortOffByOne(data) == Len(data) < IdLen

\* the length test at the head of the loop
TooShort(data) == Len(data) < MinFrameLen

\* copy(from[:], newdata[:16])
FromOf(data) == SliceTo(data, IdLen)

\* msg := newdata[16:]
MsgOf(data) == SliceFrom(data, IdLen)

\* the handler started with a go statement: OmniHandler continues at once
AfterCallGo(cs) == "recv"

\* The handlers are called in OmniHandler's own goroutine: it stands in the
\* call until the handler returns, and only then continues.
AfterCall(cs) == IF cs = <<>> THEN "recv" ELSE "handler"

\* newdata := <-OmniChan, and the loop body up to the handler call
TakeFrame ==
  /\ hpc = "recv"
  /\ OmniChan # <<>>
  /\ newdata' = Head(OmniChan)
  /\ OmniChan' = Tail(OmniChan)
  /\ IF TooShort(newdata')
       THEN /\ calls' = <<>>
            /\ UNCHANGED <<from, hpc, active>>
       ELSE /\ from' = FromOf(newdata')
            /\ IF MsgOf(newdata') = <<>>
                 THEN \* msg[0] of an empty slice: index out of range
                      /\ calls' = <<>>
                      /\ hpc' = "panic"
                      /\ UNCHANGED active
                 ELSE /\ calls' = Dispatch(from', MsgOf(newdata'))
                      /\ hpc' = AfterCall(calls')
                      /\ active' = active + Len(calls')
  /\ UNCHANGED <<rvars, cvars, xvars>>

OmniHandlerRecv == TakeFrame /\ UNCHANGED ord

\* the handler returns; continue
HandlerReturn ==
  /\ Running
  /\ active > 0
  /\ active' = active - 1
  /\ hpc' = "recv"
  /\ UNCHANGED <<newdata, from, calls, OmniChan, rvars, cvars, ord, xvars>>

OmniHandler ==
  \/ OmniHandlerRecv
  \/ HandlerReturn

Next ==
  \/ \E c \in Conns : LNDCReceiver(c)
  \/ OmniHandler

Spec == Init /\ [][Next]_vars

(***************************************************************************)
(* Properties of the dispatcher                                            *)
(***************************************************************************)
\* the step of OmniHandler that takes a frame from OmniChan
RecvStep == OmniChan # <<>> /\ OmniChan' = Tail(OmniChan)

\* the connection whose receiver built frame f
SenderOf(f) == CHOOSE c \in Conns : SliceTo(f, IdLen) = Id(c)

\* a frame that carries a type byte
HasType(f) == Len(f) >= MinFrameLen

\* byte 16 of a frame, counted from 0
TypeOf(f) == f[IdLen + 1]

\* the bytes of a frame after its type byte
PayloadOf(f) == SubSeq(f, IdLen + 2, Len(f))

\* the handler registered for each handler id
Registered(t) ==
  CASE t = MSGID_PUBREQ -> "PubReqHandler"
    [] t = MSGID_PUBRESP -> "PubRespHandler"
    [] t = MSGID_MULTIDESC -> "QChanDescHandler"
    [] t = MSGID_MULTIACK -> "QChanAckHandler"
    [] t = MSGID_CLOSEREQ -> "CloseReqHandler"
    [] t = MSGID_CLOSERESP -> "CloseRespHandler"

\* C1 as stated: a frame of at least 17 bytes with a handler id gets exactly
\* one call, of the handler registered for its type, with the sender set to
\* bytes 0..15 of the frame and the payload set to the bytes after the type
\* byte; a text-chat frame gets no call.
C1_AsStated ==
  HasType(newdata) =>
    /\ TypeOf(newdata) \in HandlerIds =>
         calls = <<Call(Registered(TypeOf(newdata)),
                        <<SliceTo(newdata, IdLen), PayloadOf(newdata)>>)>>
    /\ TypeOf(newdata) = MSGID_TEXTCHAT => calls = <<>>

\* C1 amended: as above, except that the pubkey request handler is called
\* with the sender alone; the bytes after the type byte of a pubkey request
\* are passed to no handler.  The one call is in progress exactly once.
C1_Dispatch ==
  HasType(newdata) =>
    /\ TypeOf(newdata) \in HandlerIds \ {MSGID_PUBREQ} =>
         calls = <<Call(Registered(TypeOf(newdata)),
                        <<SliceTo(newdata, IdLen), PayloadOf(newdata)>>)>>
    /\ TypeOf(newdata) = MSGID_PUBREQ =>
         calls = <<Call("PubReqHandler", <<SliceTo(newdata, IdLen)>>)>>
    /\ TypeOf(newdata) = MSGID_TEXTCHAT => calls = <<>>
    /\ hpc = "handler" => active = Len(calls)

\* a frame of connection 2 with a payload is in its handler while a frame
\* of connection 1 waits in OmniChan
C1_Witness ==
  /\ hpc = "handler"
  /\ HasType(newdata)
  /\ SenderOf(newdata) = 2
  /\ TypeOf(newdata) = MSGID_CLOSERESP
  /\ calls = <<Call("CloseRespHandler", <<Id(2), <<7>>>>)>>
  /\ OmniChan # <<>>
  /\ SenderOf(Head(OmniChan)) = 1

\* C2: a frame of at least 17 bytes whose type byte is no known message id
\* is dropped: no handler is called for it, no connection is closed by the
\* step that takes it, and OmniHandler is back at the receive.
C2_UnknownDropped ==
  /\ [](HasType(newdata) /\ TypeOf(newdata) \notin HandlerIds \cup {MSGID_TEXTCHAT}
          => calls = <<>> /\ active = 0 /\ hpc = "recv")
  /\ [][RecvStep /\ HasType(newdata') /\ TypeOf(newdata') = UnknownId
          => connOpen' = connOpen /\ rpc' = rpc]_vars

\* an unknown frame of connection 1 was dropped, the connection is open and
\* its receiver has the next frame ready
C2_Witness ==
  /\ HasType(newdata)
  /\ TypeOf(newdata) = UnknownId
  /\ SenderOf(newdata) = 1
  /\ calls = <<>>
  /\ hpc = "recv"
  /\ connOpen[1]
  /\ OmniChan # <<>>

\* C3 as stated, in a form a finite run refutes: once a frame shorter than
\* 17 bytes of a peer was taken, the session of that peer is closed, so the
\* frame taken next is not a frame of that peer that reaches a handler.
C3_AsStated ==
  [][RecvStep /\ newdata # <<>> /\ ~HasType(newdata)
       => ~(/\ SenderOf(newdata') = SenderOf(newdata)
            /\ calls' # <<>>)]_vars

\* C3 amended: a frame shorter than 17 bytes is dropped and nothing is
\* closed: the step that takes it leaves every connection and every
\* receiver as it was, and OmniHandler stays at the receive, not panicked.
C3_ShortKeepsSession ==
  [][RecvStep /\ ~HasType(newdata')
       => /\ connOpen' = connOpen
          /\ rpc' = rpc
          /\ rmsg' = rmsg
          /\ hpc' = "recv"]_vars

\* a short frame of connection 1 was dropped; connection 1 is open and its
\* receiver holds the next frame, one that will reach a handler
C3_Witness ==
  /\ newdata = Id(1)
  /\ hpc = "recv"
  /\ connOpen[1]
  /\ rpc[1] = "send"
  /\ HasType(rmsg[1])
  /\ TypeOf(rmsg[1]) = MSGID_MULTIACK

\* C4: a frame shorter than 17 bytes is discarded without effect: the step
\* that takes it calls no handler, does not copy the sender into from, and
\* changes nothing but newdata and the channel it was taken from.
C4_ShortNoEffect ==
  [][RecvStep /\ ~HasType(newdata')
       => /\ calls' = <<>>
          /\ from' = from
          /\ active' = active
          /\ hpc' = hpc
          /\ hpc' # "panic"
          /\ UNCHANGED rvars]_vars

\* the 16-byte frame of a read of zero bytes on connection 2 was taken
\* after a frame of connection 1: from still names connection 1
C4_Witness ==
  /\ newdata = Id(2)
  /\ from = Id(1)
  /\ calls = <<>>
  /\ hpc = "recv"

C6_Serialized ==
  /\ [](active <= 1 /\ (active = 1 <=> hpc = "handler"))
  /\ [][RecvStep => active = 0]_vars

\* a handler is in progress while both receivers hold a frame and the
\* channel is full
C6_Witness ==
  /\ active = 1
  /\ hpc = "handler"
  /\ Len(OmniChan) = ChanCap
  /\ \A c \in Conns : rpc[c] = "send"

(***************************************************************************)
(* Progress of the dispatcher                                              *)
(***************************************************************************)
\* The Go scheduler runs every goroutine that can take a step, the handlers
\* are taken to terminate, and the senders blocked on a full channel are
\* served first come first served, so none of them waits for ever while
\* OmniHandler keeps receiving.  Nothing makes a peer write or a read fail.
Fairness ==
  /\ WF_vars(OmniHandlerRecv)
  /\ WF_vars(HandlerReturn)
  /\ \A c \in Conns : SF_vars(Send(c))

\* One read result for each way OmniHandler treats a frame: too short,
\* unknown, text chat, a handler without and a handler with a payload.
LiveData ==
  {<<>>, <<UnknownId>>, <<MSGID_TEXTCHAT, 7>>, <<MSGID_PUBREQ>>,
   <<MSGID_CLOSEREQ, 7>>}

ReadOkLive(c) == ReadFrom(c, LiveData) /\ UNCHANGED ord

LiveNext ==
  \/ \E c \in Conns :
       \/ NewPeerOk(c)
       \/ NewPeerErr(c)
       \/ ReadOkLive(c)
       \/ ReadErr(c)
       \/ Send(c)
  \/ OmniHandlerRecv
  \/ HandlerReturn

LiveSpec == Init /\ [][LiveNext]_vars /\ Fairness

\* C7: under fair scheduling and terminating handlers, a receiver blocked on
\* handing its frame to OmniChan is eventually unblocked, a frame waiting in
\* OmniChan is eventually taken by OmniHandler (and, by that same step,
\* dispatched or dropped): no behaviour ends with frames left in OmniChan
\* and no more receive steps.  OmniHandler never terminates: it does not
\* panic and it comes back to the receive again and again.
C7_Progress ==
  /\ \A c \in Conns : (rpc[c] = "send") ~> (rpc[c] = "read")
  /\ ([]<>(OmniChan = <<>>) \/ []<><<RecvStep>>_vars)
  /\ [](hpc # "panic")
  /\ []<>(hpc = "recv")

\* both receivers are blocked on a full channel while a handler runs
C7_Witness ==
  /\ \A c \in Conns : rpc[c] = "send"
  /\ Len(OmniChan) = ChanCap
  /\ hpc = "handler"
  /\ newdata # <<>>
  /\ SenderOf(newdata) = 1
  /\ SenderOf(Head(OmniChan)) = 2

(***************************************************************************)
(* RevokeAndAck: the message and its codec                                 *)
(***************************************************************************)
\* Revocation [32]byte, NextRevocationHash [32]byte, the hash of an outpoint
HashSize == 32
\* a serialized compressed public key: NextRevocationKey (33)
PubKeySize == 33
\* a serialized outpoint, hash and 4-byte index: the 36 of 36 + 32 + 33 + 32
OutPointSize == 36

\* n bytes, all b
Fill(n, b) == [i \in 1..n |-> b]

\* n bytes that differ from one place to the next
Ramp(n, b) == [i \in 1..n |-> (b + i) % 256]

\* the 32-byte values the messages are built from; the first one is the all
\* zeroes value of an initial revocation window
Hashes == {Fill(HashSize, 0), Fill(HashSize, 255), Ramp(HashSize, 16)}

\* a uint32, kept as its two 16-bit halves: the value is hi * 65536 + lo
U32(hi, lo) == [hi |-> hi, lo |-> lo]

\* the output indices (uint32) the messages are built from: 0, 1, 258,
\* 65536 and the largest one
Indices == {U32(0, 0), U32(0, 1), U32(0, 258), U32(1, 0), U32(65535, 65535)}

\* a public key: the parity of Y and the 32 bytes of X
PubKeys == {[odd |-> FALSE, x |-> Ramp(HashSize, 64)],
            [odd |-> TRUE, x |-> Fill(HashSize, 3)]}

\* the nil *btcec.PublicKey
NilKey == [odd |-> FALSE, x |-> <<>>]

\* the RevokeAndAck messages that are encoded
Messages ==
  [ChannelPoint : [hash : {Fill(HashSize, 0), Ramp(HashSize, 1)},
                   index : Indices],
   Revocation : Hashes,
   NextRevocationKey : PubKeys,
   NextRevocationHash : Hashes]

\* the protocol versions passed to the methods
Versions == {0, 1}

\* NewRevokeAndAck: the zero value of the struct
NewRevokeAndAck ==
  [ChannelPoint |-> [hash |-> Fill(HashSize, 0), index |-> U32(0, 0)],
   Revocation |-> Fill(HashSize, 0),
   NextRevocationKey |-> NilKey,
   NextRevocationHash |-> Fill(HashSize, 0)]

\* binary.BigEndian.PutUint32
PutUint32(n) ==
  <<n.hi \div 256, n.hi % 256, n.lo \div 256, n.lo % 256>>

\* binary.BigEndian.Uint32
Uint32(b) == U32(b[1] * 256 + b[2], b[3] * 256 + b[4])

\* writeElement of a wire.OutPoint: the hash, then the index
WriteOutPoint(op) == op.hash \o PutUint32(op.index)

\* writeElement of a []byte of fixed size: the bytes
WriteBytes(b) == b

\* writeElement of a *btcec.PublicKey: SerializeCompressed
WritePubKey(k) == <<IF k.odd THEN 3 ELSE 2>> \o k.x

\* the error of io.ReadFull when fewer than n bytes are left, "nil" if not
ReadFullErr(r, n) ==
  IF Len(r) >= n THEN "nil"
  ELSE IF Len(r) = 0 THEN "EOF" ELSE "ErrUnexpectedEOF"

\* readElement of a wire.OutPoint from r: value, error, bytes left
ReadOutPoint(r, old) ==
  IF ReadFullErr(r, HashSize) # "nil"
    THEN [val |-> old, err |-> ReadFullErr(r, HashSize), rest |-> <<>>]
  ELSE IF ReadFullErr(SliceFrom(r, HashSize), 4) # "nil"
    THEN [val |-> old, err |-> ReadFullErr(SliceFrom(r, HashSize), 4),
          rest |-> <<>>]
  ELSE [val |-> [hash |-> SliceTo(r, HashSize),
                 index |-> Uint32(SubSeq(r, HashSize + 1, OutPointSize))],
        err |-> "nil", rest |-> SliceFrom(r, OutPointSize)]

\* readElement of a []byte of n bytes
ReadBytes(r, n, old) ==
  IF ReadFullErr(r, n) # "nil"
    THEN [val |-> old, err |-> ReadFullErr(r, n), rest |-> <<>>]
  ELSE [val |-> SliceTo(r, n), err |-> "nil", rest |-> SliceFrom(r, n)]

\* readElement of a *btcec.PublicKey: 33 bytes, then ParsePubKey, which
\* refuses a format byte other than 2 or 3
ReadPubKey(r, old) ==
  IF ReadFullErr(r, PubKeySize) # "nil"
    THEN [val |-> old, err |-> ReadFullErr(r, PubKeySize), rest |-> <<>>]
  ELSE IF r[1] \notin {2, 3}
    THEN [val |-> old, err |-> "ErrInvalidPubKey",
          rest |-> SliceFrom(r, PubKeySize)]
  ELSE [val |-> [odd |-> r[1] = 3, x |-> SubSeq(r, 2, PubKeySize)],
        err |-> "nil", rest |-> SliceFrom(r, PubKeySize)]

\* writeElements(w, a, b, c, d): the four elements in the order given
WriteElements(a, b, c, d) ==
  WriteOutPoint(a) \o WriteBytes(b) \o WritePubKey(c) \o WriteBytes(d)

\* readElements(r, &a, b, &c, d) into the fields of c, in the order given:
\* it stops at the first element that fails and returns its error; the
\* elements read before it stay written.  order[i] names the i-th field.
ReadElements(r, c, order) ==
  LET ReadField(f, rr, cc) ==
        IF f = "ChannelPoint" THEN ReadOutPoint(rr, cc[f])
        ELSE IF f = "NextRevocationKey" THEN ReadPubKey(rr, cc[f])
        ELSE ReadBytes(rr, HashSize, cc[f])
      e1 == ReadField(order[1], r, c)
      c1 == [c EXCEPT ![order[1]] = e1.val]
      e2 == ReadField(order[2], e1.rest, c1)
      c2 == [c1 EXCEPT ![order[2]] = e2.val]
      e3 == ReadField(order[3], e2.rest, c2)
      c3 == [c2 EXCEPT ![order[3]] = e3.val]
      e4 == ReadField(order[4], e3.rest, c3)
      c4 == [c3 EXCEPT ![order[4]] = e4.val]
  IN  IF e1.err # "nil" THEN [msg |-> c, err |-> e1.err, at |-> 1]
      ELSE IF e2.err # "nil" THEN [msg |-> c1, err |-> e2.err, at |-> 2]
      ELSE IF e3.err # "nil" THEN [msg |-> c2, err |-> e3.err, at |-> 3]
      ELSE IF e4.err # "nil" THEN [msg |-> c3, err |-> e4.err, at |-> 4]
      ELSE [msg |-> c4, err |-> "nil", at |-> 0]

\* Decode that drops the error of readElements
DecodeNoErr(c, r, v) ==
  [ReadElements(r, c, <<"ChannelPoint", "Revocation", "NextRevocationKey",
                        "NextRevocationHash">>) EXCEPT !.err = "nil"]

\* Decode that reads the next revocation hash before the revocation
DecodeSwapped(c, r, v) ==
  ReadElements(r, c, <<"ChannelPoint", "NextRevocationHash",
                       "NextRevocationKey", "Revocation">>)

\* (c *RevokeAndAck) Decode(r, pver): the receiver after the call and the
\* error returned
Decode(c, r, v) ==
  ReadElements(r, c, <<"ChannelPoint", "Revocation", "NextRevocationKey",
                       "NextRevocationHash">>)

\* (c *RevokeAndAck) Encode(w, pver): the bytes written to w
Encode(c, v) ==
  WriteElements(c.ChannelPoint, c.Revocation, c.NextRevocationKey,
                c.NextRevocationHash)

\* MaxPayloadLength with the 8 of the comment in Decode for the 36
MaxPayloadLength105(v) == 8 + 32 + 33 + 32

\* (c *RevokeAndAck) MaxPayloadLength(pver)
MaxPayloadLength(v) == 133

\* (c *RevokeAndAck) Validate(): "We're good!"
Validate(c) == "nil"

\* the outpoint whose hash and index are zero
ZeroOutPoint == [hash |-> Fill(HashSize, 0), index |-> U32(0, 0)]

\* the byte strings that are no encoding of a message: b repeated n times
RawInputs ==
  {Fill(n, b) : n \in {0, 1, 35, 36, 68, 100, 101, 132, 133, 140},
                b \in {0, 2, 255}}

\* a message to encode and a protocol version; the dispatcher stands still
CodecInit ==
  /\ rpc = [c \in Conns |-> "start"]
  /\ rmsg = [c \in Conns |-> <<>>]
  /\ connOpen = [c \in Conns |-> TRUE]
  /\ OmniChan = <<>>
  /\ hpc = "recv"
  /\ newdata = <<>>
  /\ from = [i \in 1..IdLen |-> 0]
  /\ calls = <<>>
  /\ active = 0
  /\ cpc = "new"
  /\ pver \in Versions
  /\ cmsg \in Messages
  /\ wire = <<>>
  /\ dec = <<>>
  /\ ord = NoOrder
  /\ cmd = <<>>
  /\ sm = <<>>

\* c.Encode(w, pver) on an empty buffer w
DoEncode ==
  /\ cpc = "new"
  /\ wire' = Encode(cmsg, pver)
  /\ cpc' = "encoded"
  /\ UNCHANGED <<pver, cmsg, dec, dvars, ord, xvars>>

\* the peer sends only the first n bytes of the payload
Truncate ==
  /\ cpc = "encoded"
  /\ \E n \in 0..(Len(wire) - 1) : wire' = SliceTo(wire, n)
  /\ cpc' = "raw"
  /\ UNCHANGED <<pver, cmsg, dec, dvars, ord, xvars>>

\* the peer sends bytes that no Encode has written
Inject ==
  /\ cpc = "new"
  /\ \E b \in RawInputs : wire' = b
  /\ cpc' = "raw"
  /\ UNCHANGED <<pver, cmsg, dec, dvars, ord, xvars>>

\* NewRevokeAndAck().Decode(r, pver) on a reader r of the bytes of wire
DoDecode ==
  /\ cpc \in {"encoded", "raw"}
  /\ dec' = Decode(NewRevokeAndAck, wire, pver)
  /\ cpc' = IF cpc = "encoded" THEN "roundtrip" ELSE "decoded"
  /\ UNCHANGED <<pver, cmsg, wire, dvars, ord, xvars>>

\* m.Validate() on the message, on the zero message of NewRevokeAndAck, on
\* the message without its key and on the message with a zero channel point
DoValidate ==
  /\ cpc = "new"
  /\ \E m \in {cmsg, NewRevokeAndAck,
                [cmsg EXCEPT !.NextRevocationKey = NilKey],
                [cmsg EXCEPT !.ChannelPoint = ZeroOutPoint]} :
       dec' = [msg |-> m, err |-> Validate(m), at |-> 0]
  /\ cpc' = "validated"
  /\ UNCHANGED <<pver, cmsg, wire, dvars, ord, xvars>>

CodecNext ==
  \/ DoValidate
  \/ DoEncode
  \/ Truncate
  \/ Inject
  \/ DoDecode

CodecSpec == CodecInit /\ [][CodecNext]_vars

FirstFailure(r) ==
  LET n == Len(r)
      Err(start) == IF n = start THEN "EOF" ELSE "ErrUnexpectedEOF"
  IN  IF n < 32 THEN [at |-> 1, err |-> Err(0)]
      ELSE IF n < 36 THEN [at |-> 1, err |-> Err(32)]
      ELSE IF n < 68 THEN [at |-> 2, err |-> Err(36)]
      ELSE IF n < 101 THEN [at |-> 3, err |-> Err(68)]
      ELSE IF r[69] \notin {2, 3} THEN [at |-> 3, err |-> "ErrInvalidPubKey"]
      ELSE [at |-> 4, err |-> Err(101)]

\* C10: Decode of fewer than 133 bytes returns an error, never nil, and the
\* error is the one of the first element whose read fails; the call writes
\* the receiver alone: the elements before the failing one are set, the
\* others and every other part of the state are left as they were.
C10_TruncatedFails ==
  /\ [](cpc = "decoded" /\ Len(wire) < MaxPayloadLength(pver) =>
          /\ dec.err # "nil"
          /\ dec.err = FirstFailure(wire).err
          /\ dec.at = FirstFailure(wire).at
          /\ dec.at <= 1 => dec.msg.ChannelPoint = NewRevokeAndAck.ChannelPoint
          /\ dec.at <= 2 => dec.msg.Revocation = NewRevokeAndAck.Revocation
          /\ dec.at <= 3 => dec.msg.NextRevocationKey = NilKey
          /\ dec.msg.NextRevocationHash = NewRevokeAndAck.NextRevocationHash)
  /\ [][cpc' = "decoded" => UNCHANGED <<dvars, pver, cmsg, wire>>]_vars

\* the first 132 bytes of an encoding were decoded: the read of the last
\* element failed after the first three were written to the receiver
C10_Witness ==
  /\ cpc = "decoded"
  /\ Len(wire) = 132
  /\ dec.err = "ErrUnexpectedEOF"
  /\ dec.at = 4
  /\ dec.msg.ChannelPoint = cmsg.ChannelPoint
  /\ dec.msg.Revocation = cmsg.Revocation
  /\ dec.msg.NextRevocationKey = cmsg.NextRevocationKey
  /\ dec.msg.Revocation # NewRevokeAndAck.Revocation

\* C11: Validate returns an error for a message whose channel reference is
\* zero or whose next revocation key is absent.
C11_AsStated ==
  cpc = "validated" =>
    (dec.msg.ChannelPoint = ZeroOutPoint \/ dec.msg.NextRevocationKey = NilKey
       => dec.err # "nil")

(***************************************************************************)
(* The commitment update and revocation state machine of one channel.      *)
(* Its code is not among the sources: the machine is the one of the        *)
(* transition table and the error taxonomy of the design, with the         *)
(* RevokeAndAck of lnwire as its revocation message.                       *)
(***************************************************************************)
\* highest commitment height the parties reach
MaxHeight == 2
\* number of revocations each party sends ahead to seed the peer's window
InitialWindow == 1

Parties == {"A", "B"}

Peer(p) == IF p = "A" THEN "B" ELSE "A"

\* the revocation secret of party p for its commitment at height k
Secret(p, k) == [owner |-> p, height |-> k]

\* the all zeroes value: no revocation, only a seed of the window
ZeroSecret == [owner |-> "zero", height |-> 0]

\* a value that is not the secret of height k
Forged(k) == [owner |-> "forged", height |-> k]

\* the one-way hash of a secret
Hash(x) == <<"hash", x>>

\* the revocation hash party p committed to for its height k
CommittedHash(p, k) == Hash(Secret(p, k))

\* a CommitSig of p for height k: a proposal or a counter-signature
CommitSig(p, kind, k, ok) ==
  [type |-> "CommitSig", src |-> p, kind |-> kind, h |-> k, ok |-> ok,
   secret |-> ZeroSecret, next |-> 0]

\* a RevokeAndAck of p that discloses x and names its next revocation
RevokeAndAck(p, x, n) ==
  [type |-> "RevokeAndAck", src |-> p, kind |-> "revoke", h |-> 0,
   ok |-> TRUE, secret |-> x, next |-> n]

\* the test for the sentinel left out: every value is taken for a secret
IsSentinelNever(x) == FALSE

\* the all zeroes revocation only seeds the initial revocation window
IsSentinel(x) == x = ZeroSecret

\* a hash check that accepts every secret
HashMatchesAlways(x, committed) == TRUE

\* the disclosed secret hashes to the value committed for that height
HashMatches(x, committed) == Hash(x) = committed

\* a signature check that accepts every signature
SigVerifiesAlways(m) == TRUE

\* the signature verifies against the locally built commitment
SigVerifies(m) == m.ok

\* a new commitment is also proposed while a revocation is outstanding
MayProposeEarly(state) == state \in {"Stable", "AwaitingRevocation"}

\* local update requested: precondition Stable
MayPropose(state) == state = "Stable"

SmInit ==
  [st |-> [p \in Parties |-> "Stable"],
   h |-> [p \in Parties |-> 0],
   signed |-> [p \in Parties |-> 0],
   revd |-> [p \in Parties |-> 0],
   sentRev |-> [p \in Parties |-> <<>>],
   validated |-> [p \in Parties |-> {}],
   window |-> [p \in Parties |-> <<>>],
   checked |-> [p \in Parties |-> {}],
   seeds |-> [p \in Parties |-> 0],
   net |-> {},
   ev |-> [n |-> 0, to |-> "A", msg |-> CommitSig("A", "none", 0, FALSE),
           what |-> "none"]]

\* one channel, at height 0 on both sides; everything else stands still
ChanInit ==
  /\ rpc = [c \in Conns |-> "start"]
  /\ rmsg = [c \in Conns |-> <<>>]
  /\ connOpen = [c \in Conns |-> TRUE]
  /\ OmniChan = <<>>
  /\ hpc = "recv"
  /\ newdata = <<>>
  /\ from = [i \in 1..IdLen |-> 0]
  /\ calls = <<>>
  /\ active = 0
  /\ cpc = "idle"
  /\ pver = 0
  /\ cmsg = <<>>
  /\ wire = <<>>
  /\ dec = <<>>
  /\ ord = NoOrder
  /\ cmd = <<>>
  /\ sm = SmInit

smFrame == <<dvars, cvars, ord, cmd>>

\* the record of a delivery: message m reached p, with outcome w
Event(p, m, w) == [n |-> 1 - sm.ev.n, to |-> p, msg |-> m, what |-> w]

\* p sends a RevokeAndAck with the all zeroes revocation to seed the
\* initial revocation window of its peer
Seed(p) ==
  /\ sm.st[p] # "Breached"
  /\ sm.seeds[p] < InitialWindow
  /\ sm' = [sm EXCEPT
       !.seeds[p] = @ + 1,
       !.net = @ \cup {RevokeAndAck(p, ZeroSecret,
                                MaxHeight + sm.seeds[p] + 1)}]
  /\ UNCHANGED smFrame

\* local update requested: build the commitment at height + 1, sign it and
\* send the signature
Propose(p) ==
  /\ MayPropose(sm.st[p])
  /\ sm.h[p] < MaxHeight
  /\ sm.signed[p] < MaxHeight
  /\ sm' = [sm EXCEPT
       !.st[p] = "ProposalSent",
       !.signed[p] = @ + 1,
       !.net = @ \cup {CommitSig(p, "prop", sm.signed[p] + 1, TRUE)}]
  /\ UNCHANGED smFrame

\* a CommitSig of the peer reaches p
RecvCommitSig(p) ==
  \E m \in sm.net :
    /\ m.src = Peer(p)
    /\ m.type = "CommitSig"
    /\ IF sm.st[p] = "Breached"
         THEN \* the machine refuses further updates
              sm' = [sm EXCEPT !.net = @ \ {m},
                               !.ev = Event(p, m, "refused")]
       ELSE IF sm.st[p] = "Stable" /\ m.kind = "prop" /\ SigVerifies(m)
         THEN \* remote proposes a new commitment
              sm' = [sm EXCEPT
                !.st[p] = "ProposalReceived",
                !.validated[p] = IF m.ok THEN @ \cup {m.h} ELSE @,
                !.net = @ \ {m},
                !.ev = Event(p, m, "proposal")]
       ELSE IF sm.st[p] = "ProposalSent" /\ m.kind = "counter"
               /\ SigVerifies(m)
         THEN \* counter-signature received: accept the new commitment and
              \* reply with the revocation of the prior height
              sm' = [sm EXCEPT
                !.st[p] = "AwaitingRevocation",
                !.h[p] = @ + 1,
                !.validated[p] = IF m.ok THEN @ \cup {m.h} ELSE @,
                !.sentRev[p] = Append(@, sm.h[p]),
                !.net = (@ \ {m}) \cup
                   {RevokeAndAck(p, Secret(p, sm.h[p]), sm.h[p] + 1)},
                !.ev = Event(p, m, "countersigned")]
       ELSE \* the signature does not verify, or it is a signature for a
            \* height never proposed
            sm' = [sm EXCEPT !.st[p] = "Breached", !.net = @ \ {m},
                             !.ev = Event(p, m, "badsig")]
    /\ UNCHANGED smFrame

\* p counter-signs the proposal it verified, sends its own signature, then
\* discloses its own revocation of the prior height
CounterSign(p) ==
  /\ sm.st[p] = "ProposalReceived"
  /\ sm' = [sm EXCEPT
       !.st[p] = "AwaitingRevocation",
       !.h[p] = @ + 1,
       !.signed[p] = @ + 1,
       !.sentRev[p] = Append(@, sm.h[p]),
       !.net = @ \cup {CommitSig(p, "counter", sm.h[p] + 1, TRUE),
                       RevokeAndAck(p, Secret(p, sm.h[p]), sm.h[p] + 1)}]
  /\ UNCHANGED smFrame

\* a RevokeAndAck of the peer reaches p
RecvRevoke(p) ==
  \E m \in sm.net :
    /\ m.src = Peer(p)
    /\ m.type = "RevokeAndAck"
    /\ IF sm.st[p] = "Breached"
         THEN sm' = [sm EXCEPT !.net = @ \ {m},
                               !.ev = Event(p, m, "refused")]
       ELSE IF IsSentinel(m.secret)
         THEN \* add it to the queue of unused revocations
              sm' = [sm EXCEPT !.window[p] = Append(@, m.next),
                               !.net = @ \ {m},
                               !.ev = Event(p, m, "seed")]
       ELSE IF ~HashMatches(m.secret,
                            CommittedHash(Peer(p), sm.revd[p]))
         THEN \* revocation received, hash mismatch, any state
              sm' = [sm EXCEPT !.st[p] = "Breached",
                               !.checked[p] = @ \cup {m.secret},
                               !.net = @ \ {m},
                               !.ev = Event(p, m, "mismatch")]
       ELSE IF sm.st[p] = "AwaitingRevocation"
         THEN \* mark the height irrevocably superseded
              sm' = [sm EXCEPT !.st[p] = "Stable",
                               !.revd[p] = @ + 1,
                               !.window[p] = Append(@, m.next),
                               !.checked[p] = @ \cup {m.secret},
                               !.net = @ \ {m},
                               !.ev = Event(p, m, "revoked")]
       ELSE \* a revocation no state awaits: protocol violation
            sm' = [sm EXCEPT !.st[p] = "Breached",
                             !.checked[p] = @ \cup {m.secret},
                             !.net = @ \ {m},
                             !.ev = Event(p, m, "violation")]
    /\ UNCHANGED smFrame

\* a message on its way is replaced by one with a signature that does not
\* verify, or with a value that is not the secret
Tamper ==
  /\ \E m \in sm.net :
       /\ m.ok
       /\ m.secret.owner \in Parties \/ m.type = "CommitSig"
       /\ sm' = [sm EXCEPT !.net = (@ \ {m}) \cup
            {IF m.type = "CommitSig"
               THEN [m EXCEPT !.ok = FALSE]
               ELSE [m EXCEPT !.ok = FALSE,
                              !.secret = Forged(m.secret.height)]}]
  /\ UNCHANGED smFrame

ChanNext ==
  \/ \E p \in Parties :
       \/ Seed(p)
       \/ Propose(p)
       \/ RecvCommitSig(p)
       \/ CounterSign(p)
       \/ RecvRevoke(p)
  \/ Tamper

ChanSpec == ChanInit /\ [][ChanNext]_vars

(***************************************************************************)
(* Properties of the commitment update and revocation state machine.       *)
(***************************************************************************)
\* the heights below its commitment height that p has not revoked
OwnUnrevoked(p) ==
  {k \in 0..(sm.h[p] - 1) :
     \A i \in 1..Len(sm.sentRev[p]) : sm.sentRev[p][i] # k}

\* the commitments of the peer that p signed and that are not revoked to p
PeerUnrevoked(p) == sm.revd[p]..(sm.signed[p] - 1)

\* the message as its sender wrote it
Unforge(m) ==
  [m EXCEPT !.ok = TRUE,
            !.secret = IF @.owner = "forged" THEN Secret(m.src, @.height)
                       ELSE @]

\* the messages p has put on the wire that are still on their way
Outbound(p, net) == {Unforge(m) : m \in {x \in net : x.src = p}}

\* this step delivers a RevokeAndAck to party p, which is not Breached
RevokeDelivered(p) ==
  /\ sm'.ev # sm.ev
  /\ sm'.ev.to = p
  /\ sm'.ev.msg.type = "RevokeAndAck"
  /\ sm.st[p] # "Breached"

\* C12: a party sends a RevokeAndAck that discloses a revocation secret only
\* after it has received and validated a CommitSig for the successor
\* commitment, and it discloses each revocation secret at most once.
C12_RevokeAfterCommitSig ==
  /\ \A p \in Parties :
       /\ \A i \in 1..Len(sm.sentRev[p]) :
            (sm.sentRev[p][i] + 1) \in sm.validated[p]
       /\ \A i, j \in 1..Len(sm.sentRev[p]) :
            i # j => sm.sentRev[p][i] # sm.sentRev[p][j]
  /\ \A m \in sm.net :
       m.type = "RevokeAndAck" /\ ~IsSentinel(Unforge(m).secret)
         => /\ Unforge(m).secret.owner = m.src
            /\ (Unforge(m).secret.height + 1) \in sm.validated[m.src]

\* a party has disclosed the secrets of two heights, one per update
C12_Witness ==
  \E p \in Parties : Len(sm.sentRev[p]) = 2 /\ sm.validated[p] = {1, 2}

\* C13: a RevokeAndAck whose Revocation is all zeroes only seeds the
\* receiver's initial revocation window: its next key and hash are queued,
\* it revokes no commitment, it is never hash-checked and never leads to
\* Breached.
C13_SentinelSeedsWindow ==
  /\ [](\A p \in Parties : ZeroSecret \notin sm.checked[p])
  /\ [][\A p \in Parties :
          RevokeDelivered(p) /\ sm'.ev.msg.secret = ZeroSecret
            => /\ sm'.window[p] = Append(sm.window[p], sm'.ev.msg.next)
               /\ sm'.st = sm.st
               /\ sm'.revd = sm.revd
               /\ sm'.h = sm.h
               /\ sm'.checked = sm.checked]_vars

\* the seed reaches a party that awaits a revocation, and it still awaits it
C13_Witness ==
  /\ sm.ev.what = "seed"
  /\ sm.ev.msg.secret = ZeroSecret
  /\ sm.st[sm.ev.to] = "AwaitingRevocation"
  /\ Len(sm.window[sm.ev.to]) = 1

\* C14: the commitment height is strictly increasing over accepted updates,
\* and at most one un-revoked predecessor commitment exists per direction.
C14_HeightsAndWindow ==
  /\ [](\A p \in Parties :
          /\ Cardinality(OwnUnrevoked(p)) <= 1
          /\ Cardinality(PeerUnrevoked(p)) <= 1)
  /\ [][\A p \in Parties :
          /\ sm'.h[p] >= sm.h[p]
          /\ sm'.signed[p] >= sm.signed[p]
          /\ sm'.st[p] = "AwaitingRevocation" /\ sm.st[p] # "AwaitingRevocation"
               => sm'.h[p] = sm.h[p] + 1]_vars

\* a second update is accepted while its predecessor is not yet revoked
C14_Witness ==
  \E p \in Parties :
    /\ sm.h[p] = 2
    /\ sm.st[p] = "AwaitingRevocation"
    /\ PeerUnrevoked(p) = {1}

\* a RevokeAndAck with a secret that is not the sentinel and does not hash
\* to the committed value takes its receiver to Breached
MismatchBreaches ==
  \A p \in Parties :
    /\ RevokeDelivered(p)
    /\ sm'.ev.msg.secret # ZeroSecret
    /\ Hash(sm'.ev.msg.secret) # CommittedHash(Peer(p), sm.revd[p])
    => sm'.st[p] = "Breached"

\* a Breached party sends nothing and accepts no update
BreachedIsFinal ==
  \A p \in Parties :
    sm.st[p] = "Breached"
      => /\ sm'.st[p] = "Breached"
         /\ Outbound(p, sm'.net) \subseteq Outbound(p, sm.net)
         /\ sm'.h[p] = sm.h[p]
         /\ sm'.signed[p] = sm.signed[p]
         /\ sm'.revd[p] = sm.revd[p]

PeerIdxs == {1, 2}

\* the lists of stored channels, each with the index of its peer
QchanLists ==
  {<<>>} \cup {<<a>> : a \in PeerIdxs}
         \cup {<<a, b>> : a \in PeerIdxs, b \in PeerIdxs}

\* the amounts pushed
Amounts == {-1, 5}

NoCall == [op |-> "none", args |-> <<>>, con |-> "nil", result |-> "nil"]

CmdInit ==
  /\ rpc = [c \in Conns |-> "start"]
  /\ rmsg = [c \in Conns |-> <<>>]
  /\ connOpen = [c \in Conns |-> TRUE]
  /\ OmniChan = <<>>
  /\ hpc = "recv"
  /\ newdata = <<>>
  /\ from = [i \in 1..IdLen |-> 0]
  /\ calls = <<>>
  /\ active = 0
  /\ cpc = "idle"
  /\ pver = 0
  /\ cmsg = <<>>
  /\ wire = <<>>
  /\ dec = <<>>
  /\ ord = NoOrder
  /\ sm = <<>>
  /\ cmd = [RemoteCon |-> "nil", idxErr |-> FALSE, peerIdx |-> 1,
            qErr |-> FALSE, multis |-> <<>>, sent |-> <<>>, last |-> NoCall]

cmdFrame == <<dvars, cvars, ord, sm>>

\* the process has not faulted
CmdRunning == cmd.last.result # "panic"

\* a connection is made or dropped: RemoteCon is set or nil
SetRemoteCon ==
  /\ CmdRunning
  /\ \E k \in {"nil", "peer"} :
       /\ k # cmd.RemoteCon
       /\ cmd' = [cmd EXCEPT !.RemoteCon = k]
  /\ UNCHANGED cmdFrame

\* the store changes: which index it gives the peer, which channels it
\* holds, and whether its reads fail
StoreChange ==
  /\ CmdRunning
  /\ \E e \in BOOLEAN, i \in PeerIdxs, q \in BOOLEAN, ms \in QchanLists :
       /\ <<e, i, q, ms>> # <<cmd.idxErr, cmd.peerIdx, cmd.qErr, cmd.multis>>
       /\ cmd' = [cmd EXCEPT !.idxErr = e, !.peerIdx = i, !.qErr = q,
                             !.multis = ms]
  /\ UNCHANGED cmdFrame

Returned(op, args, res) ==
  [op |-> op, args |-> args, con |-> cmd.RemoteCon, result |-> res]

PushChannel ==
  /\ CmdRunning
  /\ cmd' = [cmd EXCEPT !.last =
       Returned("PushChannel", <<>>,
                IF cmd.RemoteCon = "nil" THEN "Not connected to anyone"
                ELSE "nil")]
  /\ UNCHANGED cmdFrame

\* prints the push and returns: nothing is built, nothing is sent
PushSig(peerIdx, cIdx, amt) ==
  /\ CmdRunning
  /\ cmd' = [cmd EXCEPT !.last =
       Returned("PushSig", <<peerIdx, cIdx, amt>>,
                IF cmd.RemoteCon = "nil" THEN "Not connected to anyone"
                ELSE "nil")]
  /\ UNCHANGED cmdFrame

\* the index of the first stored channel of peer i, 0 when there is none
RECURSIVE FirstOf(_, _, _)
FirstOf(ms, i, k) ==
  IF k > Len(ms) THEN 0
  ELSE IF ms[k] = i THEN k
  ELSE FirstOf(ms, i, k + 1)

\* opBytes after the loop: the 36 bytes of the outpoint, or nil
OpBytesLen(ms, i) == IF FirstOf(ms, i, 1) = 0 THEN 0 ELSE OutPointSize

BreakChannelResult ==
  IF cmd.RemoteCon = "nil" THEN "panic"
  ELSE IF cmd.idxErr THEN "GetPeerIdx error"
  ELSE IF cmd.qErr THEN "GetAllQchans error"
  ELSE IF OpBytesLen(cmd.multis, cmd.peerIdx) = 0 THEN "panic"
  ELSE "nil"

BreakChannel ==
  /\ CmdRunning
  /\ cmd' = [cmd EXCEPT !.last = Returned("BreakChannel", <<>>,
                                         BreakChannelResult)]
  /\ UNCHANGED cmdFrame

CmdNext ==
  \/ SetRemoteCon
  \/ StoreChange
  \/ PushChannel
  \/ \E i \in PeerIdxs, a \in Amounts : PushSig(i, 1, a)
  \/ BreakChannel

CmdSpec == CmdInit /\ [][CmdNext]_vars

\* the sigpush message for a peer, a channel and an amount
SigPush(args) ==
  [type |-> "sigpush", peerIdx |-> args[1], cIdx |-> args[2], amt |-> args[3]]

\* C16: with a remote connection PushSig creates a sigpush message for the
\* given peer, channel and amount and sends it to the peer; with none,
\* PushSig and PushChannel return an error and send nothing.
C16_AsStated ==
  /\ cmd.last.op = "PushSig" /\ cmd.last.con # "nil"
       => /\ cmd.sent # <<>>
          /\ cmd.sent[Len(cmd.sent)] = SigPush(cmd.last.args)
  /\ cmd.last.op \in {"PushSig", "PushChannel"} /\ cmd.last.con = "nil"
       => cmd.last.result # "nil" /\ cmd.sent = <<>>

\* C20: BreakChannel never faults: it does not dereference a missing
\* connection, it does not index an empty outpoint buffer, and it returns
\* the errors of the store unchanged.
C20_AsStated ==
  cmd.last.op = "BreakChannel"
    => /\ cmd.last.result # "panic"
       /\ cmd.idxErr /\ cmd.last.con # "nil"
            => cmd.last.result = "GetPeerIdx error"

(***************************************************************************)
(* The receivers and the dispatcher with a record of what each connection  *)
(* read (ord.rd), of the frames OmniHandler took from the channel (ord.dq) *)
(* and of the handler calls it made (ord.hc).                              *)
(***************************************************************************)
\* number of reads recorded per connection
MaxFrames == 2

\* what a read returns: nothing, a pubkey request, a close request with a
\* payload byte, a message of no known type
OrdData ==
  {<<>>, <<MSGID_PUBREQ>>, <<MSGID_CLOSEREQ, 7>>, <<UnknownId>>}

OrderInit ==
  /\ rpc = [c \in Conns |-> "start"]
  /\ rmsg = [c \in Conns |-> <<>>]
  /\ connOpen = [c \in Conns |-> TRUE]
  /\ OmniChan = <<>>
  /\ hpc = "recv"
  /\ newdata = <<>>
  /\ from = [i \in 1..IdLen |-> 0]
  /\ calls = <<>>
  /\ active = 0
  /\ cpc = "idle"
  /\ pver = 0
  /\ cmsg = <<>>
  /\ wire = <<>>
  /\ dec = <<>>
  /\ ord = NoOrder
  /\ cmd = <<>>
  /\ sm = <<>>

\* n, err := l.Read(msg) with err == nil
OrdRead(c) ==
  /\ Len(ord.rd[c]) < MaxFrames
  /\ \E data \in OrdData :
       /\ Read(c, data)
       /\ ord' = [ord EXCEPT !.rd[c] = Append(@, data)]

\* newdata := <-OmniChan and the dispatch of newdata
OrdRecv ==
  /\ TakeFrame
  /\ ord' = [ord EXCEPT !.dq = Append(@, newdata'), !.hc = @ \o calls']

OrderNext ==
  \/ \E c \in Conns :
       \/ NewPeerOk(c)
       \/ NewPeerErr(c)
       \/ OrdRead(c)
       \/ ReadErr(c)
       \/ Send(c)
  \/ OrdRecv
  \/ HandlerReturn

OrderSpec == OrderInit /\ [][OrderNext]_vars

\* the frames of s that carry the id of connection c, without the id
RECURSIVE DataOf(_, _)
DataOf(s, c) ==
  IF s = <<>> THEN <<>>
  ELSE IF Len(Head(s)) >= IdLen /\ SliceTo(Head(s), IdLen) = Id(c)
    THEN <<SliceFrom(Head(s), IdLen)>> \o DataOf(Tail(s), c)
  ELSE DataOf(Tail(s), c)

\* the frame receiver c holds for its send
Pending(c) == IF rpc[c] = "send" THEN <<rmsg[c]>> ELSE <<>>

\* the handlers called for sender c, in the order of the calls
RECURSIVE HandlersFor(_, _)
HandlersFor(cs, c) ==
  IF cs = <<>> THEN <<>>
  ELSE IF Head(cs).args[1] = Id(c)
    THEN <<Head(cs).handler>> \o HandlersFor(Tail(cs), c)
  ELSE HandlersFor(Tail(cs), c)

\* the handlers registered for the reads ds, in the order of the reads
RECURSIVE HandlersOf(_)
HandlersOf(ds) ==
  IF ds = <<>> THEN <<>>
  ELSE IF Head(ds) # <<>> /\ Head(ds)[1] \in HandlerIds
    THEN <<Registered(Head(ds)[1])>> \o HandlersOf(Tail(ds))
  ELSE HandlersOf(Tail(ds))

LastRead(c) == ord.rd[c][Len(ord.rd[c])]

\* C18: every frame put on the queue is the 16-byte id of its own
\* connection followed by exactly the bytes of one read of it.
C18_FrameIsIdThenRead ==
  /\ [](\A i \in 1..Len(OmniChan) :
          \E c \in Conns : \E k \in 1..Len(ord.rd[c]) :
            OmniChan[i] = Id(c) \o ord.rd[c][k])
  /\ [][\A c \in Conns :
          rpc[c] = "send" /\ rpc'[c] = "read"
            => OmniChan' = Append(OmniChan, Id(c) \o LastRead(c))]_vars

\* the queue holds the frame of a read of two bytes of connection 2 after
\* a frame of an empty read, of 16 bytes, went through it
C18_Witness ==
  /\ OmniChan # <<>>
  /\ OmniChan[1] = Id(2) \o <<MSGID_CLOSEREQ, 7>>
  /\ \E i \in 1..Len(ord.dq) : Len(ord.dq[i]) = IdLen

\* receiver c returns in this step
Returns(c) == rpc[c] # "done" /\ rpc'[c] = "done"

\* the step leaves the dispatcher, the queue and the other receivers alone
OthersUntouched(c) ==
  /\ UNCHANGED <<OmniChan, hvars>>
  /\ \A d \in Conns \ {c} :
       rpc'[d] = rpc[d] /\ rmsg'[d] = rmsg[d] /\ connOpen'[d] = connOpen[d]

\* C19: on a read failure LNDCReceiver closes that connection and returns
\* without enqueuing anything; if NewPeer fails it returns the error before
\* reading; the dispatcher and the other receivers keep running.
C19_ReceiverFailure ==
  [][\A c \in Conns :
       /\ Returns(c) /\ rpc[c] = "read"
            => /\ ~connOpen'[c]
               /\ rmsg'[c] = <<>>
               /\ OthersUntouched(c)
       /\ Returns(c) /\ rpc[c] = "start"
            => /\ connOpen'[c] = connOpen[c]
               /\ rmsg'[c] = <<>>
               /\ OthersUntouched(c)
       /\ Returns(c) => rpc[c] \in {"read", "start"}
       /\ rpc[c] = "done" => rpc'[c] = "done" /\ connOpen'[c] = connOpen[c]]_vars

\* connection 1 failed on a read and is closed, and a frame of connection
\* 2 is with its handler while receiver 2 holds its next frame
C19_Witness ==
  /\ rpc[1] = "done"
  /\ ~connOpen[1]
  /\ rpc[2] = "send"
  /\ active > 0
  /\ from = Id(2)

====
